---- MODULE Spec2Model ----
(***************************************************************************)
(* Model of the MCP hub backend (src/src/mcp_hub/backend.py): the          *)
(* multi-server MCPClient (connection management, tool discovery, the      *)
(* two-phase query dispatch) and the FastAPI handlers that drive it        *)
(* (startup_event, shutdown_event, chat_endpoint, upload_config).          *)
(*                                                                         *)
(* The handlers are asyncio coroutines on one event loop: the code between *)
(* two awaits runs atomically, so every action below is one such stretch.  *)
(* The model calls (chat_client.chat.completions.create) are synchronous:  *)
(* while one is in progress the loop runs nothing else (variable blocker). *)
(* Strings that the code splits or concatenates are sequences of tokens.   *)
(***************************************************************************)
EXTENDS Integers, Sequences, FiniteSets, TLC

\* ---------------------------------------------------------------- bounds
NumSlots == 2        \* requests that may be in flight at once
MaxStarts == 2       \* requests accepted over one run of the gateway
MaxSpecs == 2        \* server specs in one configuration

\* ---------------------------------------------------------------- inputs
Names == {"s1", "s2"}
Slots == 1 .. NumSlots
StartupProc == 0
Procs == {StartupProc} \cup Slots
NoProc == -1

\* configurations: the "servers" list of the YAML file, by server name
RECURSIVE SeqsUpTo(_, _)
SeqsUpTo(S, n) ==
  IF n = 0 THEN {<<>>}
  ELSE LET shorter == SeqsUpTo(S, n - 1)
       IN shorter \cup {Append(s, x) : s \in {t \in shorter : Len(t) = n - 1}, x \in S}

Configs == SeqsUpTo(Names, MaxSpecs)

\* the configuration file found at startup
StartupConfigs == {<<>>, <<"s1">>, <<"s1", "s2">>}

\* the tool catalog a server answers list_tools() with (response.tools); a
\* server started again under the same name answers with the same catalog
Catalog(name) ==
  IF name = "s1" THEN << <<"a">>, <<"b">> >> ELSE << <<"a">> >>

\* caller-supplied turn sequences of a /chat request
Turn(role, content) == [role |-> role, content |-> content]
Histories ==
  { <<>>,
    << Turn("user", "q1"), Turn("assistant", "r1"), Turn("user", "q2") >> }

\* argument payloads of a tool call, as the model writes them
GoodArgs == "{\"x\": 1}"
BadArgs == "{x"
ToolCall(name, arguments) == [name |-> name, arguments |-> arguments]
Message(content, tool_calls) == [content |-> content, tool_calls |-> tool_calls]

\* completion.choices[0].message of the first model call
Replies ==
  { Message(<<"hello">>, <<>>),
    Message(<<>>, <<>>),
    Message(<<>>, << ToolCall(<<"s1", ":", "a">>, GoodArgs) >>),
    Message(<<"hello">>, << ToolCall(<<"s2", ":", "a">>, GoodArgs),
                        ToolCall(<<"s1", ":", "b">>, GoodArgs) >>),
    Message(<<>>, << ToolCall(<<"sx", ":", "a">>, GoodArgs) >>),
    Message(<<>>, << ToolCall(<<"sx", ":", "a">>, BadArgs) >>),
    Message(<<>>, << ToolCall(<<"s1", ":", "b">>, BadArgs) >>),
    Message(<<>>, << ToolCall(<<"s1", ":", "a", ":", "b">>, GoodArgs) >>),
    Message(<<>>, << ToolCall(<<"a">>, GoodArgs) >>) }

\* what session.call_tool() returns: hasattr(structuredContent), its value
ToolResult(shape) == [shape |-> shape, raw |-> "RAW", value |-> "42"]
ToolResults == {ToolResult(s) : s \in {"none", "noresult", "result"}}

\* ---------------------------------------------------------------- dicts
\* a dict whose order is not observed: a function on its key set
EmptyMap == [k \in {} |-> ""]
Put(f, k, v) == [x \in (DOMAIN f) \cup {k} |-> IF x = k THEN v ELSE f[x]]

\* self.sessions: a dict in insertion order, as a sequence of items
Item(name, sid) == [name |-> name, sid |-> sid]
Keys(d) == {d[j].name : j \in 1 .. Len(d)}
DictGet(d, k) ==
  IF k \in Keys(d) THEN (CHOOSE j \in 1 .. Len(d) : d[j].name = k) ELSE 0
\* a load that replaces the whole server set instead of adding to it
DictSetReplacing(d, k, v) == << Item(k, v) >>

DictSet(d, k, v) ==
  IF k \in Keys(d)
  THEN [j \in 1 .. Len(d) |-> IF d[j].name = k THEN Item(k, v) ELSE d[j]]
  ELSE Append(d, Item(k, v))
SidOf(d, k) == IF DictGet(d, k) = 0 THEN 0 ELSE d[DictGet(d, k)].sid

\* values of mcp_client.active_servers: True, or the record of startup_event
BoolTrue == [type |-> "bool", active |-> TRUE]
RunningRecord == [type |-> "dict", status |-> "running", active |-> TRUE, cwd |-> "cwd"]
ErrorRecord(reason) ==
  [type |-> "dict", active |-> FALSE,
   status |-> IF reason = "spawn" THEN "error: spawn" ELSE "error: handshake"]
Truthy(v) == IF v.type = "bool" THEN v.active ELSE TRUE

VARIABLES
  sessions,        \* MCPClient.sessions
  active_servers,  \* MCPClient.active_servers
  exit_stack,      \* MCPClient.exit_stack: the entered contexts, last on top
  procs,           \* every subprocess/session ever spawned, by session id
  req,             \* the coroutine of startup (0) and of each request slot
  blocker,         \* the coroutine inside a synchronous model call, or NoProc
  phase,           \* "startup", "serving", "closing", "down"
  cleanup_exc,     \* an exception is pending in exit_stack.aclose()
  started          \* requests accepted so far

vars == <<sessions, active_servers, exit_stack, procs, req, blocker, phase,
          cleanup_exc, started>>

NoMsg == Message(<<>>, <<>>)
NoRet == [text |-> <<>>, tool_used |-> <<>>, set |-> FALSE]
Ret(text, tool_used) == [text |-> text, tool_used |-> tool_used, set |-> TRUE]
None == <<"<None>">>

IdleReq ==
  [kind |-> "none", pc |-> "idle", servers |-> <<>>, i |-> 0, sid |-> 0,
   report |-> EmptyMap, n0 |-> 0, tools |-> <<>>, messages |-> <<>>,
   p1_messages |-> <<>>, p1_tools |-> <<>>, msg |-> NoMsg, full_tool_name |-> <<>>,
   server_name |-> <<>>, tool_name |-> <<>>, tool_result |-> ToolResult("unset"),
   result |-> "", p2_messages |-> <<>>, ret |-> NoRet, exc |-> "none",
   http |-> 0, events |-> <<>>, nok |-> 0, nfail |-> 0, hung |-> FALSE]

InFlight(p) == req[p].pc \notin {"idle", "done", "raised"}

\* a handler without the outer try: the exception leaves the handler unanswered
RaisedEscaping(r, exc) == [r EXCEPT !.pc = "raised", !.exc = exc, !.http = 0]

\* an exception leaves the coroutine; chat_endpoint and upload_config answer 500
Raised(r, exc) ==
  [r EXCEPT !.pc = "raised", !.exc = exc,
            !.http = IF r.kind \in {"chat", "upload"} THEN 500 ELSE 0]

Returned(r, ret) == [r EXCEPT !.pc = "done", !.ret = ret, !.http = 200]

\* ------------------------------------------------------ connect_to_server
\* the spec being started by coroutine p
CurName(p) == req[p].servers[req[p].i]

\* after one spec: the for loop of startup_event / upload_config goes on
AfterSpec(p, r) ==
  IF r.i < Len(r.servers)
  THEN [r EXCEPT !.i = r.i + 1, !.pc = "spawn", !.sid = 0]
  ELSE [r EXCEPT !.pc = "done", !.sid = 0,
                 !.http = IF r.kind = "upload" THEN 200 ELSE 0]

\* a loop without the try: the first failing spec ends the batch
StartFailedAborting(p, reason) ==
  /\ req' = [req EXCEPT ![p] = Raised(req[p], "StartError")]
  /\ phase' = IF p = StartupProc THEN "serving" ELSE phase

\* except Exception as e: in the loop of startup_event / upload_config
\* (nok and nfail count the iterations that ended in the try and in the except)
StartFailed(p, reason) ==
  LET r == req[p]
      r0 == [r EXCEPT !.nfail = r.nfail + 1]
      r1 == IF r.kind = "upload"
            THEN [r0 EXCEPT !.report = Put(r.report, CurName(p), ErrorRecord(reason))]
            ELSE r0
  IN /\ req' = [req EXCEPT ![p] = AfterSpec(p, r1)]
     /\ phase' = IF p = StartupProc /\ r.i = Len(r.servers) THEN "serving" ELSE phase

\* the try body after connect_to_server returned
StartSucceeded(p, name) ==
  LET r == req[p]
      r0 == [r EXCEPT !.nok = r.nok + 1]
      r1 == IF r.kind = "upload"
            THEN [r0 EXCEPT !.report = Put(r.report, name, RunningRecord)]
            ELSE r0
  IN /\ req' = [req EXCEPT ![p] = AfterSpec(p, r1)]
     /\ active_servers' =
          IF r.kind = "startup"
          THEN Put(active_servers, name, RunningRecord)
          ELSE Put(active_servers, name, BoolTrue)
     /\ phase' = IF p = StartupProc /\ r.i = Len(r.servers) THEN "serving" ELSE phase

\* await exit_stack.enter_async_context(stdio_client(..)) returns or raises;
\* the ClientSession context is entered in the same stretch
SpawnReturn(p, ok) ==
  /\ blocker = NoProc
  /\ req[p].pc = "spawn"
  /\ IF ok
     THEN LET sid == Len(procs) + 1
          IN /\ procs' = Append(procs, [name |-> CurName(p), init |-> FALSE,
                                        open |-> TRUE, alive |-> TRUE])
             /\ exit_stack' = exit_stack \o << [ctx |-> "stdio", sid |-> sid],
                                               [ctx |-> "session", sid |-> sid] >>
             /\ req' = [req EXCEPT ![p].pc = "init", ![p].sid = sid]
             /\ UNCHANGED phase
     ELSE /\ StartFailed(p, "spawn")
          /\ UNCHANGED <<procs, exit_stack>>
  /\ UNCHANGED <<sessions, active_servers, blocker, cleanup_exc, started>>

\* await session.initialize() returns or raises
InitReturn(p, ok) ==
  /\ blocker = NoProc
  /\ req[p].pc = "init"
  /\ ~req[p].hung
  /\ IF ok
     THEN /\ procs' = [procs EXCEPT ![req[p].sid].init = TRUE]
          /\ sessions' = DictSet(sessions, CurName(p), req[p].sid)
          /\ StartSucceeded(p, CurName(p))
     ELSE /\ StartFailed(p, "handshake")
          /\ UNCHANGED <<procs, sessions, active_servers>>
  /\ UNCHANGED <<exit_stack, blocker, cleanup_exc, started>>

\* POST /upload-config arrives with a configuration
BeginUpload(r, cfg) ==
  /\ phase = "serving"
  /\ blocker = NoProc
  /\ ~InFlight(r)
  /\ started < MaxStarts
  /\ started' = started + 1
  /\ req' = [req EXCEPT ![r] =
       IF cfg = <<>>
       THEN [IdleReq EXCEPT !.kind = "upload", !.pc = "done", !.http = 200]
       ELSE [IdleReq EXCEPT !.kind = "upload", !.pc = "spawn", !.servers = cfg, !.i = 1]]
  /\ UNCHANGED <<sessions, active_servers, exit_stack, procs, blocker, phase, cleanup_exc>>

\* ---------------------------------------------------------------- cleanup
\* shutdown_event: the server has stopped taking requests and the handlers have
\* returned, their coroutines are gone
BeginCleanup ==
  /\ phase = "serving"
  /\ blocker = NoProc
  /\ \A r \in Slots : ~InFlight(r)
  /\ phase' = IF exit_stack = <<>> THEN "down" ELSE "closing"
  /\ req' = [p \in Procs |-> IdleReq]
  /\ UNCHANGED <<sessions, active_servers, exit_stack, procs, blocker,
                 cleanup_exc, started>>

\* exit_stack.aclose() exits the contexts last-in first-out; an exit that raises
\* does not stop the unwinding, the exception is raised when the stack is empty
CloseOne(ok) ==
  /\ phase = "closing"
  /\ exit_stack # <<>>
  /\ LET top == exit_stack[Len(exit_stack)]
     IN procs' = IF top.ctx = "session"
                 THEN [procs EXCEPT ![top.sid].open = FALSE]
                 ELSE [procs EXCEPT ![top.sid].alive = FALSE]
  /\ exit_stack' = SubSeq(exit_stack, 1, Len(exit_stack) - 1)
  /\ cleanup_exc' = (cleanup_exc \/ ~ok)
  /\ phase' = IF Len(exit_stack) = 1 THEN "down" ELSE "closing"
  /\ UNCHANGED <<sessions, active_servers, req, blocker, started>>

\* ------------------------------------------------------- registry traversal
\* self.active_servers.get(name, False), tested for truth
ActiveGet(name) ==
  IF name \in DOMAIN active_servers THEN Truthy(active_servers[name]) ELSE FALSE

\* the next item after position from that the loop does not skip, or 0
NextActive(d, from) ==
  LET later == {j \in (from + 1) .. Len(d) : ActiveGet(d[j].name)}
  IN IF later = {} THEN 0 ELSE CHOOSE j \in later : \A k \in later : j <= k

\* a schema keyed by the bare tool name
NamespacedBare(name, tool) == tool

\* f"{name}:{tool.name}"
Namespaced(name, tool) == <<name, ":">> \o tool

\* the entry process_query appends to available_tools
SchemaEntry(name, tool) ==
  [type |-> "function", function |-> [name |-> Namespaced(name, tool)]]

\* the entry list_all_tools appends to tools
Descriptor(name, tool) ==
  [type |-> "descriptor", server |-> name, tool_name |-> tool]

ToolEntries(kind, name) ==
  [j \in 1 .. Len(Catalog(name)) |->
     IF kind = "chat" THEN SchemaEntry(name, Catalog(name)[j])
                      ELSE Descriptor(name, Catalog(name)[j])]

SystemTurn == Turn("system", "Before answering, think step by step ...")

\* the synthetic turn put in front of the caller's turns
Phase1MessagesPrepended(messages) == << SystemTurn >> \o messages

\* messages=[*messages, {"role": "system", ...}] of the first model call
Phase1Messages(messages) == Append(messages, SystemTurn)

\* the for loop over self.sessions.items() moves on from position from: the
\* iterator raises when the dict changed size; past the last item the first
\* model call is issued (process_query) or the list is returned (list_all_tools)
Iterate(r, from) ==
  IF Len(sessions) # r.n0
  THEN Raised(r, "RuntimeError")
  ELSE LET j == NextActive(sessions, from)
       IN IF j # 0
          THEN [r EXCEPT !.pc = "list_tools", !.i = j, !.sid = sessions[j].sid]
          ELSE IF r.kind = "chat"
               THEN [r EXCEPT !.pc = "p1", !.i = 0, !.sid = 0,
                              !.p1_messages = Phase1Messages(r.messages),
                              !.p1_tools = r.tools,
                              !.events = Append(r.events, "p1_call")]
               ELSE [r EXCEPT !.pc = "done", !.i = 0, !.sid = 0]

BlockerAfter(p, r) == IF r.pc \in {"p1", "p2"} THEN p ELSE NoProc

\* POST /chat arrives: LLMAdapter is built, process_query starts its traversal
BeginChat(r, messages, adapterOk) ==
  /\ phase = "serving"
  /\ blocker = NoProc
  /\ ~InFlight(r)
  /\ started < MaxStarts
  /\ started' = started + 1
  /\ LET r0 == [IdleReq EXCEPT !.kind = "chat", !.messages = messages,
                               !.n0 = Len(sessions)]
         r1 == IF adapterOk THEN Iterate(r0, 0) ELSE Raised(r0, "ValueError")
     IN /\ req' = [req EXCEPT ![r] = r1]
        /\ blocker' = BlockerAfter(r, r1)
  /\ UNCHANGED <<sessions, active_servers, exit_stack, procs, phase, cleanup_exc>>

\* list_all_tools() is called
BeginList(r) ==
  /\ phase = "serving"
  /\ blocker = NoProc
  /\ ~InFlight(r)
  /\ started < MaxStarts
  /\ started' = started + 1
  /\ req' = [req EXCEPT ![r] =
       Iterate([IdleReq EXCEPT !.kind = "list", !.n0 = Len(sessions)], 0)]
  /\ UNCHANGED <<sessions, active_servers, exit_stack, procs, blocker, phase,
                 cleanup_exc>>

\* await session.list_tools() returns or raises
ListToolsReturn(r, ok) ==
  /\ blocker = NoProc
  /\ req[r].pc = "list_tools"
  /\ LET q == req[r]
         name == sessions[q.i].name
         r1 == IF ok
               THEN Iterate([q EXCEPT !.tools = q.tools \o ToolEntries(q.kind, name)], q.i)
               ELSE Raised(q, "list_tools failed")
     IN /\ req' = [req EXCEPT ![r] = r1]
        /\ blocker' = BlockerAfter(r, r1)
  /\ UNCHANGED <<sessions, active_servers, exit_stack, procs, phase, cleanup_exc,
                 started>>

\* ------------------------------------------------------------ process_query
\* str.split(":", 1)
FirstColon(s) ==
  LET at == {j \in 1 .. Len(s) : s[j] = ":"}
  IN IF at = {} THEN 0 ELSE CHOOSE j \in at : \A k \in at : j <= k

\* str.rsplit(":", 1): the split at the last separator
Split1AtLast(s) ==
  LET at == {j \in 1 .. Len(s) : s[j] = ":"}
      l == IF at = {} THEN 0 ELSE CHOOSE j \in at : \A k \in at : j >= k
  IN IF l = 0 THEN << s >>
     ELSE << SubSeq(s, 1, l - 1), SubSeq(s, l + 1, Len(s)) >>

Split1(s) ==
  IF FirstColon(s) = 0 THEN << s >>
  ELSE << SubSeq(s, 1, FirstColon(s) - 1), SubSeq(s, FirstColon(s) + 1, Len(s)) >>

\* a parser that lets any payload through
JsonLoadsLenient(arguments) == [ok |-> TRUE, value |-> arguments]

\* json.loads(tool_call.function.arguments)
JsonLoads(arguments) ==
  IF arguments = GoodArgs THEN [ok |-> TRUE, value |-> "x=1"]
  ELSE [ok |-> FALSE, value |-> ""]

\* a server name as the key it is looked up by
NameStr(s) == IF Len(s) = 1 THEN s[1] ELSE "?"

\* self.sessions.get(server_name)
SessionsGet(server_name) == SidOf(sessions, NameStr(server_name))

TextOf(s) == << s >>
ErrorText(server_name) == <<"Error: server '">> \o server_name \o <<"' not connected.">>
NoResponse == TextOf("No response from model.")

\* a direct answer that is dropped for the fallback text
DirectResultDropped(msg) == Ret(NoResponse, None)

\* return {"text": msg.content, "tool_used": None}
DirectResult(msg) == Ret(msg.content, None)

\* an empty reply that is indexed as if it held a tool call
EmptyReplyRaising(r) == Raised(r, "IndexError")

\* return {"text": "No response from model.", "tool_used": None}
EmptyReply(r) == Returned(r, Ret(NoResponse, None))

\* the code from msg = completion.choices[0].message to await session.call_tool
Dispatch(r, msg) ==
  LET r1 == [r EXCEPT !.msg = msg, !.events = Append(r.events, "p1_done")]
  IN IF msg.content # <<>> /\ msg.tool_calls = <<>>
     THEN Returned(r1, DirectResult(msg))
     ELSE IF msg.tool_calls # <<>>
     THEN LET tool_call == msg.tool_calls[1]
              parts == Split1(tool_call.name)
              r2 == [r1 EXCEPT !.full_tool_name = tool_call.name]
          IN IF Len(parts) # 2 THEN Raised(r2, "ValueError")
             ELSE LET r3 == [r2 EXCEPT !.server_name = parts[1], !.tool_name = parts[2]]
                  IN IF ~JsonLoads(tool_call.arguments).ok
                     THEN Raised(r3, "JSONDecodeError")
                     ELSE IF SessionsGet(parts[1]) = 0
                     THEN Returned(r3, Ret(ErrorText(parts[1]), None))
                     ELSE [r3 EXCEPT !.pc = "call_tool",
                                     !.sid = SessionsGet(parts[1]),
                                     !.events = Append(r1.events, "tool_call")]
     ELSE EmptyReply(r1)

\* the first model call returns
P1Return(r, msg) ==
  /\ blocker = r
  /\ req[r].pc = "p1"
  /\ req' = [req EXCEPT ![r] = Dispatch(req[r], msg)]
  /\ blocker' = NoProc
  /\ UNCHANGED <<sessions, active_servers, exit_stack, procs, phase, cleanup_exc,
                 started>>

\* the first model call raises
P1Raise(r) ==
  /\ blocker = r
  /\ req[r].pc = "p1"
  /\ req' = [req EXCEPT ![r] = Raised(req[r], "ProviderError")]
  /\ blocker' = NoProc
  /\ UNCHANGED <<sessions, active_servers, exit_stack, procs, phase, cleanup_exc,
                 started>>

\* tool_result.structuredContent["result"] if hasattr(..) and "result" in .. else tool_result
Extract(tool_result) ==
  IF tool_result.shape = "noattr" THEN [ok |-> TRUE, value |-> tool_result.raw]
  ELSE IF tool_result.shape = "none" THEN [ok |-> FALSE, value |-> ""]
  ELSE IF tool_result.shape = "result" THEN [ok |-> TRUE, value |-> tool_result.value]
  ELSE [ok |-> TRUE, value |-> tool_result.raw]

\* the f-string final_prompt
FinalPrompt(messages, result) ==
  << "The user asked: ", messages[Len(messages)].content,
     "The tool returned: ", result, "Please summarize and respond naturally." >>

\* messages=[{"role": "user", "content": final_prompt}] of the second model call
Phase2Messages(messages, result) == << Turn("user", FinalPrompt(messages, result)) >>

\* the code from the return of call_tool to the second model call
AfterTool(r, tool_result) ==
  LET r1 == [r EXCEPT !.tool_result = tool_result,
                      !.events = Append(r.events, "tool_done")]
  IN IF ~Extract(tool_result).ok THEN Raised(r1, "TypeError")
     ELSE IF r.messages = <<>> THEN Raised(r1, "IndexError")
     ELSE [r1 EXCEPT !.pc = "p2",
                     !.result = Extract(tool_result).value,
                     !.p2_messages = Phase2Messages(r.messages, Extract(tool_result).value),
                     !.events = Append(r1.events, "p2_call")]

\* await session.call_tool(tool_name, tool_args) returns
ToolReturn(r, tool_result) ==
  /\ blocker = NoProc
  /\ req[r].pc = "call_tool"
  /\ req' = [req EXCEPT ![r] = AfterTool(req[r], tool_result)]
  /\ blocker' = BlockerAfter(r, AfterTool(req[r], tool_result))
  /\ UNCHANGED <<sessions, active_servers, exit_stack, procs, phase, cleanup_exc,
                 started>>

\* await session.call_tool(tool_name, tool_args) raises
ToolRaise(r) ==
  /\ blocker = NoProc
  /\ req[r].pc = "call_tool"
  /\ req' = [req EXCEPT ![r] = Raised(req[r], "call_tool failed")]
  /\ UNCHANGED <<sessions, active_servers, exit_stack, procs, blocker, phase,
                 cleanup_exc, started>>

P2Replies == {TextOf("summary")}

\* return {"text": final_answer, "tool_used": f"{server_name}:{tool_name}"}
FinalResult(r, final_answer) ==
  Ret(final_answer, r.server_name \o <<":">> \o r.tool_name)

\* the second model call returns
P2Return(r, final_answer) ==
  /\ blocker = r
  /\ req[r].pc = "p2"
  /\ req' = [req EXCEPT ![r] =
       Returned([req[r] EXCEPT !.events = Append(req[r].events, "p2_done")],
                FinalResult(req[r], final_answer))]
  /\ blocker' = NoProc
  /\ UNCHANGED <<sessions, active_servers, exit_stack, procs, phase, cleanup_exc,
                 started>>

\* the second model call raises
P2Raise(r) ==
  /\ blocker = r
  /\ req[r].pc = "p2"
  /\ req' = [req EXCEPT ![r] = Raised(req[r], "ProviderError")]
  /\ blocker' = NoProc
  /\ UNCHANGED <<sessions, active_servers, exit_stack, procs, phase, cleanup_exc,
                 started>>

\* the subprocess that coroutine p has spawned never answers the handshake:
\* await session.initialize() has no timeout around it and stays pending
Hang(p) ==
  /\ req[p].pc = "init"
  /\ ~req[p].hung
  /\ req' = [req EXCEPT ![p].hung = TRUE]
  /\ UNCHANGED <<sessions, active_servers, exit_stack, procs, blocker, phase,
                 cleanup_exc, started>>

\* ------------------------------------------------------------ specification
Init ==
  /\ sessions = <<>>
  /\ active_servers = EmptyMap
  /\ exit_stack = <<>>
  /\ procs = <<>>
  /\ blocker = NoProc
  /\ cleanup_exc = FALSE
  /\ started = 0
  /\ \E cfg \in StartupConfigs :
       /\ req = [p \in Procs |->
            IF p = StartupProc
            THEN IF cfg = <<>>
                 THEN [IdleReq EXCEPT !.kind = "startup", !.pc = "done"]
                 ELSE [IdleReq EXCEPT !.kind = "startup", !.pc = "spawn",
                                      !.servers = cfg, !.i = 1]
            ELSE IdleReq]
       /\ phase = IF cfg = <<>> THEN "serving" ELSE "startup"

Next ==
  \/ \E p \in Procs, ok \in BOOLEAN : SpawnReturn(p, ok)
  \/ \E p \in Procs, ok \in BOOLEAN : InitReturn(p, ok)
  \/ \E r \in Slots, cfg \in Configs : BeginUpload(r, cfg)
  \/ \E r \in Slots, m \in Histories, ok \in BOOLEAN : BeginChat(r, m, ok)
  \/ \E r \in Slots : BeginList(r)
  \/ \E r \in Slots, ok \in BOOLEAN : ListToolsReturn(r, ok)
  \/ \E r \in Slots, msg \in Replies : P1Return(r, msg)
  \/ \E r \in Slots : P1Raise(r)
  \/ \E r \in Slots, t \in ToolResults : ToolReturn(r, t)
  \/ \E r \in Slots : ToolRaise(r)
  \/ \E r \in Slots, a \in P2Replies : P2Return(r, a)
  \/ \E r \in Slots : P2Raise(r)
  \/ \E p \in Procs : Hang(p)
  \/ BeginCleanup
  \/ \E ok \in BOOLEAN : CloseOne(ok)

Spec == Init /\ [][Next]_vars

\* the continuation of coroutine p once the call it awaits has answered
Answer(p) ==
  \/ \E ok \in BOOLEAN : SpawnReturn(p, ok)
  \/ \E ok \in BOOLEAN : InitReturn(p, ok)
  \/ \E ok \in BOOLEAN : ListToolsReturn(p, ok)
  \/ \E msg \in Replies : P1Return(p, msg)
  \/ P1Raise(p)
  \/ \E t \in ToolResults : ToolReturn(p, t)
  \/ ToolRaise(p)
  \/ \E a \in P2Replies : P2Return(p, a)
  \/ P2Raise(p)

\* the event loop resumes every coroutine whose awaited call has answered, and
\* every call answers unless it hangs
FairSpec == Spec /\ \A p \in Procs : WF_vars(Answer(p))

\* ------------------------------------------------------------------ claims
Chats == {r \in Slots : req[r].kind = "chat"}
Uploads == {r \in Slots : req[r].kind = "upload"}
Loaders == {p \in Procs : req[p].kind \in {"startup", "upload"}}
Range(s) == {s[j] : j \in 1 .. Len(s)}
Count(s, x) == Cardinality({j \in 1 .. Len(s) : s[j] = x})
IsPrefix(e, s) == Len(e) <= Len(s) /\ \A j \in 1 .. Len(e) : e[j] = s[j]
Running == {n \in Keys(sessions) : ActiveGet(n)}

TwoPhaseEvents == <<"p1_call", "p1_done", "tool_call", "tool_done", "p2_call", "p2_done">>

\* C1: in a dispatch whose Phase-1 reply requests a tool on a Running server with
\* well-formed arguments the events are, in this order and once each: Phase-1
\* call and reply, tool call and its completion, Phase-2 call; once the tool has
\* completed the Phase-2 call is issued with a single turn holding the tool's
\* result and the content of the caller's final turn, and the dispatch returns
\* the Phase-2 reply with toolUsed the requested identifier.
C1_TwoPhaseOrder ==
  \A r \in Chats :
    LET q == req[r]
        e == q.events
    IN /\ IsPrefix(e, TwoPhaseEvents)
       /\ (Len(e) >= 4 /\ q.messages # <<>>) =>
            /\ Len(e) >= 5
            /\ Len(q.p2_messages) = 1
            /\ q.result \in Range(q.p2_messages[1].content)
            /\ q.messages[Len(q.messages)].content \in Range(q.p2_messages[1].content)
       /\ Len(e) = 6 =>
            /\ q.pc = "done"
            /\ q.ret.text \in P2Replies
            /\ q.ret.tool_used = q.full_tool_name

\* C2: a dispatch whose Phase-1 reply carries direct text and no tool call
\* returns exactly that text with toolUsed None, after one model call and no
\* tool call.
C2_DirectText ==
  \A r \in Chats :
    LET q == req[r]
    IN ("p1_done" \in Range(q.events) /\ q.msg.content # <<>> /\ q.msg.tool_calls = <<>>) =>
         /\ q.pc = "done"
         /\ q.ret = Ret(q.msg.content, None)
         /\ Count(q.events, "p1_call") + Count(q.events, "p2_call") = 1
         /\ Count(q.events, "tool_call") = 0

C2_Witness ==
  \E r \in Chats :
    /\ req[r].pc = "done"
    /\ req[r].msg = Message(<<"hello">>, <<>>)
    /\ req[r].ret.text = <<"hello">>

\* C3: a dispatch whose Phase-1 reply requests sx:a, sx having no Running
\* handle, returns the error result naming the unknown server with toolUsed
\* None, calls no tool and issues no Phase-2 call.
C3_UnknownServer ==
  \A r \in Chats :
    LET q == req[r]
    IN ("p1_done" \in Range(q.events) /\ q.msg.tool_calls # <<>>
          /\ Split1(q.msg.tool_calls[1].name)[1] = <<"sx">>) =>
         /\ q.pc = "done"
         /\ q.ret = Ret(ErrorText(<<"sx">>), None)
         /\ Count(q.events, "tool_call") = 0
         /\ Count(q.events, "p2_call") = 0

Distinct(s) == Cardinality(Range(s)) = Len(s)
FailedKeys(report) == {n \in DOMAIN report : ~report[n].active}
RunningKeys(report) == {n \in DOMAIN report : report[n].active}

\* C4 as stated: a finished batch of N specs of which K failed has processed all
\* of them, and the report of an upload has exactly N keys, K of them failed
\* entries with their reason and N-K running entries.
C4_BatchReport ==
  \A p \in Loaders :
    LET q == req[p]
    IN ~InFlight(p) =>
         /\ q.pc = "done"
         /\ q.nok + q.nfail = Len(q.servers)
         /\ q.kind = "upload" =>
              /\ Cardinality(DOMAIN q.report) = Len(q.servers)
              /\ Cardinality(FailedKeys(q.report)) = q.nfail
              /\ Cardinality(RunningKeys(q.report)) = q.nok

\* C4 amended: a finished batch has processed every spec whatever failed, and
\* when the N names of an upload are pairwise distinct its report has exactly N
\* keys: K failed entries carrying the reason, N-K running entries.
C4_BatchReportDistinct ==
  \A p \in Loaders :
    LET q == req[p]
    IN ~InFlight(p) =>
         /\ q.pc = "done"
         /\ q.nok + q.nfail = Len(q.servers)
         /\ (q.kind = "upload" /\ Distinct(q.servers)) =>
              /\ DOMAIN q.report = Range(q.servers)
              /\ Cardinality(DOMAIN q.report) = Len(q.servers)
              /\ Cardinality(FailedKeys(q.report)) = q.nfail
              /\ Cardinality(RunningKeys(q.report)) = q.nok
              /\ \A n \in FailedKeys(q.report) :
                   q.report[n].status \in {"error: spawn", "error: handshake"}
              /\ \A n \in RunningKeys(q.report) : q.report[n].status = "running"

C4_Witness ==
  \E r \in Uploads :
    /\ req[r].pc = "done"
    /\ req[r].servers = <<"s1", "s2">>
    /\ req[r].nfail = 1
    /\ FailedKeys(req[r].report) = {"s1"}
    /\ RunningKeys(req[r].report) = {"s2"}

\* C5: when the start of a name fails, that name is from then on no Running
\* handle of the supervisor, it is left out of the aggregation.
C5_FailedExcluded ==
  [][\A p \in Procs :
       (req[p].pc \in {"spawn", "init"} /\ req'[p].nfail = req[p].nfail + 1) =>
         ~(/\ CurName(p) \in Keys(sessions')
           /\ CurName(p) \in DOMAIN active_servers'
           /\ Truthy(active_servers'[CurName(p)]))]_vars

SchemaNames(tools) == {tools[j].function.name : j \in 1 .. Len(tools)}
CatalogPairs == UNION {{<<n, j>> : j \in 1 .. Len(Catalog(n))} : n \in Running}

\* C6: the schema handed to the first model call has exactly one entry
\* "<server>:<tool>" per Running server and tool of its catalog, nothing else.
C6_SchemaNamespaced ==
  \A r \in Chats :
    req[r].pc = "p1" =>
      /\ SchemaNames(req[r].p1_tools) =
           {<<pr[1], ":">> \o Catalog(pr[1])[pr[2]] : pr \in CatalogPairs}
      /\ Cardinality(SchemaNames(req[r].p1_tools)) = Len(req[r].p1_tools)
      /\ Len(req[r].p1_tools) = Cardinality(CatalogPairs)

C6_Witness ==
  \E r \in Chats :
    /\ req[r].pc = "p1"
    /\ Len(req[r].p1_tools) = 3
    /\ SchemaNames(req[r].p1_tools) =
         {<<"s1", ":", "a">>, <<"s1", ":", "b">>, <<"s2", ":", "a">>}

\* C7: a failing tool-catalog query of one handle never makes the traversal
\* fail, the handle is skipped.
C7_SkipFailedCatalog ==
  \A r \in Slots : req[r].exc # "list_tools failed"

\* C8: every handle recorded as active has a live, initialized session.
C8_RunningHasLiveSession ==
  \A j \in 1 .. Len(sessions) :
    ActiveGet(sessions[j].name) =>
      /\ procs[sessions[j].sid].init
      /\ procs[sessions[j].sid].open
      /\ procs[sessions[j].sid].alive

Initializing(p) == req[p].pc \in {"spawn", "init"}

\* C9: no two initializations of the same server name are in progress at once.
C9_NoConcurrentInit ==
  \A p, q \in Procs :
    (p # q /\ Initializing(p) /\ Initializing(q)) => CurName(p) # CurName(q)

\* C10: no step of an upload touches a server its configuration does not name:
\* the item of sessions, the entry of active_servers and the session stay as
\* they are.
C10_UploadAdditive ==
  [][\A r \in Slots :
       (req[r].kind = "upload" /\ InFlight(r) /\ req'[r] # req[r]) =>
         \A j \in 1 .. Len(sessions) :
           sessions[j].name \notin Range(req[r].servers) =>
             /\ Len(sessions') >= j
             /\ sessions'[j] = sessions[j]
             /\ sessions[j].name \in DOMAIN active_servers'
             /\ active_servers'[sessions[j].name] = active_servers[sessions[j].name]
             /\ procs'[sessions[j].sid] = procs[sessions[j].sid]]_vars

C10_Witness ==
  \E r \in Uploads :
    /\ req[r].pc = "done"
    /\ req[r].servers = <<"s2">>
    /\ req[r].nok = 1
    /\ SidOf(sessions, "s1") = 1
    /\ procs[1].init /\ procs[1].open /\ procs[1].alive
    /\ Running = {"s1", "s2"}

\* C11: every failure inside a /chat dispatch ends the request with the error
\* result or with HTTP 500, none is left unanswered, and no step of a /chat
\* request changes the handle map.
C11_FailuresContained ==
  /\ [](\A r \in Chats :
          /\ req[r].pc = "raised" => (req[r].http = 500 /\ req[r].exc # "none")
          /\ req[r].pc = "done" => (req[r].http = 200 /\ req[r].ret.set))
  /\ [][\A r \in Slots :
          (req'[r].kind = "chat" /\ req'[r] # req[r]) =>
            (sessions' = sessions /\ active_servers' = active_servers)]_vars

C11_Witness ==
  \E r \in Chats :
    /\ req[r].pc = "raised"
    /\ req[r].exc = "call_tool failed"
    /\ req[r].http = 500
    /\ Running = {"s1", "s2"}

FirstCall(q) == q.msg.tool_calls[1]

C13_EmptyReply ==
  \A r \in Chats :
    LET q == req[r]
    IN ("p1_done" \in Range(q.events) /\ q.msg.content = <<>> /\ q.msg.tool_calls = <<>>) =>
         /\ q.pc = "done"
         /\ q.http = 200
         /\ q.ret = Ret(<<"No response from model.">>, None)
         /\ Count(q.events, "p1_call") + Count(q.events, "p2_call") = 1
         /\ Count(q.events, "tool_call") = 0

C13_Witness ==
  \E r \in Chats :
    /\ req[r].pc = "done"
    /\ req[r].events = <<"p1_call", "p1_done">>
    /\ req[r].msg = Message(<<>>, <<>>)
    /\ req[r].ret.text = <<"No response from model.">>

\* C14: cleanup at shutdown tears down every tracked handle and never raises: at
\* its end every session is closed, every subprocess gone, no exception pending.
C14_StopAllNeverRaises ==
  phase = "down" =>
    /\ \A sid \in 1 .. Len(procs) : ~procs[sid].open /\ ~procs[sid].alive
    /\ ~cleanup_exc

\* GET /servers: return JSONResponse({"servers": mcp_client.active_servers})
ServersResponse == [servers |-> active_servers]

\* C18: GET /servers reports every tracked server as a record with the fields
\* status, active and working directory, however the server was started.
C18_ServersRecordShape ==
  \A n \in DOMAIN ServersResponse.servers :
    /\ ServersResponse.servers[n].type = "dict"
    /\ DOMAIN ServersResponse.servers[n] = {"type", "status", "active", "cwd"}

\* C19: an insertion of a new server name into the handle map during the schema
\* traversal of a dispatch never makes that dispatch fail.
C19_TraversalSurvivesInsert ==
  \A r \in Slots : req[r].exc # "RuntimeError"

\* C20: whatever the shape of the tool's response, the extraction does not fail
\* and the value handed to Phase 2 is the structured "result" field when there
\* is one, the raw response otherwise.
C20_ExtractEveryShape ==
  \A r \in Chats :
    LET q == req[r]
    IN "tool_done" \in Range(q.events) =>
         /\ q.exc # "TypeError"
         /\ "p2_call" \in Range(q.events) =>
              q.result = IF q.tool_result.shape = "result"
                         THEN q.tool_result.value ELSE q.tool_result.raw

\* C16: every start and every dispatch eventually terminates, also when the
\* subprocess handshake never answers, so a batch load always goes on to its
\* remaining specs.
C16_Terminates ==
  \A p \in Procs : InFlight(p) ~> ~InFlight(p)

Waiting == {"spawn", "init", "list_tools", "p1", "call_tool", "p2"}

\* C17: while one request waits on a long-latency operation, every other request
\* in flight whose own call answers can take its next step.
C17_NoBlocking ==
  \A r, q \in Slots :
    (r # q /\ req[r].pc \in Waiting /\ InFlight(q) /\ ~req[q].hung) =>
      ENABLED Answer(q)

\* the subprocesses of server name n whose start succeeded and that still run
LiveSessions(n) ==
  {sid \in 1 .. Len(procs) :
     procs[sid].name = n /\ procs[sid].init /\ procs[sid].alive}

\* C21: at most one live session exists per server name, so the live sessions
\* are never more than the names of the handle map: a successful start of a
\* name that has a handle destroys the old session.
C21_OneLiveSessionPerName ==
  /\ \A n \in Names : Cardinality(LiveSessions(n)) <= 1
  /\ Cardinality(UNION {LiveSessions(n) : n \in Names}) <= Len(sessions)

\* C22: a requested identifier that holds a ':' is split at its first ':' only:
\* the server name holds no ':', the tool name is all that follows (further
\* ':' included), and the toolUsed of a finished two-phase dispatch is the
\* identifier the model requested.
C22_SplitOnFirstSeparator ==
  \A r \in Chats :
    LET q == req[r]
    IN ("p1_done" \in Range(q.events) /\ q.msg.tool_calls # <<>>
          /\ ":" \in Range(FirstCall(q).name)) =>
         /\ ":" \notin Range(q.server_name)
         /\ q.server_name \o <<":">> \o q.tool_name = FirstCall(q).name
         /\ ("p2_done" \in Range(q.events) =>
               (q.pc = "done" /\ q.ret.tool_used = FirstCall(q).name))

C22_Witness ==
  \E r \in Chats :
    /\ req[r].pc = "done"
    /\ "p2_done" \in Range(req[r].events)
    /\ req[r].server_name = <<"s1">>
    /\ req[r].tool_name = <<"a", ":", "b">>
    /\ req[r].ret.tool_used = <<"s1", ":", "a", ":", "b">>

\* C23: a dispatch never changes the turns its caller supplied: the Phase-1
\* request is the caller's turns in their order followed by exactly one
\* synthetic system turn, and no step of the dispatch, on any branch, changes
\* the caller's sequence.
C23_CallerTurnsUnchanged ==
  /\ [](\A r \in Chats :
          LET q == req[r]
          IN "p1_call" \in Range(q.events) =>
               /\ Len(q.p1_messages) = Len(q.messages) + 1
               /\ SubSeq(q.p1_messages, 1, Len(q.messages)) = q.messages
               /\ q.p1_messages[Len(q.p1_messages)].role = "system"
               /\ Count(q.p1_messages, SystemTurn) = 1)
  /\ [][\A r \in Slots :
          (req[r].kind = "chat" /\ InFlight(r) /\ req'[r].kind = "chat") =>
            req'[r].messages = req[r].messages]_vars

C23_Witness ==
  \E r \in Chats :
    /\ req[r].pc = "done"
    /\ "p2_done" \in Range(req[r].events)
    /\ Len(req[r].messages) = 3
    /\ Len(req[r].p1_messages) = 4

====
